---- MODULE Spec2Model ----
(***************************************************************************)
(* A model of opennmt/models/model.py: the learning rate decay wrapper,    *)
(* the example filter, the bucketing key function, the input pipeline      *)
(* (zip, filter, shuffle, repeat, padded_batch / group_by_window) and the  *)
(* word counters of the model entry point.                                 *)
(*                                                                         *)
(* Conventions.  Python's None for an optional number is the empty         *)
(* sequence and a present number x is <<x>>.  A dictionary is a record     *)
(* with kind = "dict"; the key "length" is present iff it is in the        *)
(* record's domain.  Learning rates are fixed-point integers and a decay   *)
(* rate is a percentage (50 is 0.5).                                       *)
(***************************************************************************)
EXTENDS Integers, Sequences, FiniteSets, TLC

VARIABLES
  dpc,        \* decay: "none" | "built" | "decayed" | "ValueError"
  dcfg,       \* decay: the arguments captured by learning_rate_decay_fn
  dcall,      \* decay: the last call decay_fn(learning_rate, global_step) and its result
  fcall,      \* filter: the last call of _filter_example and its result
  kcall,      \* bucketing: the last call of key_func and its result
  pc,         \* pipeline: "idle" | "fn" | "ValueError" | "KeyError" | "dataset" | "graph" | "OutOfRange" | "InvalidArgumentError"
  args,       \* pipeline: the arguments of input_fn
  stream,     \* pipeline: the examples that reach the batching stage, in order
  pos,        \* pipeline: how many examples of stream the batching stage has consumed
  windows,    \* pipeline: group_by_window's open window of each key
  pending,    \* pipeline: batches of the window being reduced, not yet returned
  emitted,    \* pipeline: the batches returned by iterator.get_next(), in order
  counters    \* word counters: "features" and "labels", None until created

decayVars == <<dpc, dcfg, dcall>>
filterVars == <<fcall>>
bucketVars == <<kcall>>
pipeVars == <<pc, args, stream, pos, windows, pending, emitted, counters>>
vars == <<dpc, dcfg, dcall, fcall, kcall, pc, args, stream, pos, windows, pending, emitted, counters>>

----------------------------------------------------------------------------
(* Optional values and arithmetic helpers *)

None == <<>>

Some(x) == <<x>>

IsNone(o) == o = <<>>

Val(o) == o[1]

\* Python truthiness of an optional number: None and 0 are false.
Truthy(o) == (~IsNone(o)) /\ Val(o) # 0

Maximum(a, b) == IF a >= b THEN a ELSE b

Minimum(a, b) == IF a <= b THEN a ELSE b

\* Python's // on integers (floor division), for a divisor that is not zero.
FloorDiv(a, b) == IF b > 0 THEN a \div b ELSE (-a) \div (-b)

\* dict.get("length"): the value, or None when the key is absent.
GetLength(d) == IF "length" \in DOMAIN d THEN Some(d.length) ELSE None

IsDict(v) == v.kind = "dict"

----------------------------------------------------------------------------
(* Bounds of the model *)

MaxGlobalStep == 6

MaxFileLen == 2

MaxEpochs == 2

----------------------------------------------------------------------------
(* 4.1 Decay policy: learning_rate_decay_fn and its decay_fn *)

\* The decay functions of tf.train that take
\* (learning_rate, global_step, decay_steps, decay_rate, staircase).
TfTrainDecays == {"exponential_decay", "inverse_time_decay"}

\* The names found in opennmt.utils.decay; that module is not part of the
\* modelled source, so no name resolves there.
CustomDecays == {}

DecayTypes == TfTrainDecays \cup {"bogus_decay"}

RECURSIVE Decayed(_, _, _)
\* learning_rate * decay_rate ^ p for a whole p, rounded down at each factor.
Decayed(learning_rate, decay_rate, p) ==
  IF p <= 0 THEN learning_rate
  ELSE Decayed((learning_rate * decay_rate) \div 100, decay_rate, p - 1)

\* tf.train.exponential_decay: learning_rate * decay_rate ^ (step / decay_steps);
\* staircase floors the exponent.  A fractional exponent is interpolated
\* linearly between the two neighbouring whole powers.
exponential_decay(learning_rate, step, decay_steps, decay_rate, staircase) ==
  LET p == FloorDiv(step, decay_steps)
      r == step - p * decay_steps
      lo == Decayed(learning_rate, decay_rate, p)
      hi == Decayed(learning_rate, decay_rate, p + 1)
  IN IF staircase THEN lo ELSE lo - ((lo - hi) * r) \div decay_steps

\* tf.train.inverse_time_decay: learning_rate / (1 + decay_rate * step / decay_steps);
\* staircase floors step / decay_steps.
inverse_time_decay(learning_rate, step, decay_steps, decay_rate, staircase) ==
  IF staircase
  THEN (learning_rate * 100) \div (100 + decay_rate * FloorDiv(step, decay_steps))
  ELSE (learning_rate * 100 * decay_steps) \div (100 * decay_steps + decay_rate * step)

\* getattr(tf.train, decay_type, None), then getattr(decay, decay_type, None).
ResolveDecay(decay_type) ==
  IF decay_type \in TfTrainDecays THEN Some(decay_type)
  ELSE IF decay_type \in CustomDecays THEN Some(decay_type)
  ELSE None

\* decay_op_name(learning_rate, step, decay_steps, decay_rate, staircase=staircase)
DecayOp(name, learning_rate, step, decay_steps, decay_rate, staircase) ==
  IF name = "exponential_decay"
  THEN exponential_decay(learning_rate, step, decay_steps, decay_rate, staircase)
  ELSE inverse_time_decay(learning_rate, step, decay_steps, decay_rate, staircase)

\* A faulty variant of decay_fn: the result is not clamped to minimum_learning_rate.
decay_fn_unclamped(cfg, learning_rate, global_step) ==
  DecayOp(Val(ResolveDecay(cfg.decay_type)), learning_rate,
          Maximum(global_step - cfg.start_decay_steps, 0),
          cfg.decay_steps, cfg.decay_rate, cfg.staircase)

\* A faulty variant of decay_fn: the decay counts from step 0, not from start_decay_steps.
decay_fn_no_start(cfg, learning_rate, global_step) ==
  Maximum(DecayOp(Val(ResolveDecay(cfg.decay_type)), learning_rate,
                  Maximum(global_step, 0),
                  cfg.decay_steps, cfg.decay_rate, cfg.staircase),
          cfg.minimum_learning_rate)

\* decay_fn for a decay_type that resolves (lines 41-49).
decay_fn(cfg, learning_rate, global_step) ==
  LET decayed_learning_rate ==
        DecayOp(Val(ResolveDecay(cfg.decay_type)), learning_rate,
                Maximum(global_step - cfg.start_decay_steps, 0),
                cfg.decay_steps, cfg.decay_rate, cfg.staircase)
  IN Maximum(decayed_learning_rate, cfg.minimum_learning_rate)

DecayRates == {50, 90}

DecaySteps == {1, 2, 3}

StartDecaySteps == {0, 2, 4}

MinimumLearningRates == {0, 300, 2000}

LearningRates == {1000, 640}

NoDecayCall == [learning_rate |-> 0, global_step |-> 0, result |-> None]

DecayInit ==
  /\ dpc = "none"
  /\ dcfg = None
  /\ dcall = NoDecayCall

\* learning_rate_decay_fn(decay_type, decay_rate, decay_steps, staircase,
\* start_decay_steps, minimum_learning_rate): captures its arguments.
LearningRateDecayFn ==
  /\ dpc = "none"
  /\ \E t \in DecayTypes, r \in DecayRates, s \in DecaySteps, sc \in BOOLEAN,
        st \in StartDecaySteps, m \in MinimumLearningRates :
       dcfg' = Some([decay_type |-> t, decay_rate |-> r, decay_steps |-> s,
                     staircase |-> sc, start_decay_steps |-> st,
                     minimum_learning_rate |-> m])
  /\ dpc' = "built"
  /\ UNCHANGED <<dcall, filterVars, bucketVars, pipeVars>>

\* decay_fn(learning_rate, global_step): raises ValueError for a decay_type
\* that resolves in neither namespace, else returns the decayed rate.
DecayFn ==
  /\ dpc \in {"built", "decayed"}
  /\ \E lr \in LearningRates, gs \in 0..MaxGlobalStep :
       IF IsNone(ResolveDecay(Val(dcfg).decay_type))
       THEN /\ dpc' = "ValueError"
            /\ dcall' = [learning_rate |-> lr, global_step |-> gs, result |-> None]
       ELSE /\ dpc' = "decayed"
            /\ dcall' = [learning_rate |-> lr, global_step |-> gs,
                         result |-> Some(decay_fn(Val(dcfg), lr, gs))]
  /\ UNCHANGED <<dcfg, filterVars, bucketVars, pipeVars>>

----------------------------------------------------------------------------
(* 4.3 Example filter: Model._filter_example *)

\* tf.reduce_all over the list of conditions; the empty list reduces to true.
RECURSIVE ReduceAll(_)
ReduceAll(cond) == IF cond = <<>> THEN TRUE ELSE Head(cond) /\ ReduceAll(Tail(cond))

\* A faulty variant of _filter_example: the maximum lengths are exclusive bounds.
filter_example_exclusive(features, labels, maximum_features_length, maximum_labels_length) ==
  LET features_length == GetLength(features)
      labels_length == IF IsDict(labels) THEN GetLength(labels) ELSE None
      fcond == IF IsNone(features_length) THEN <<>>
               ELSE <<Val(features_length) > 0>> \o
                    (IF IsNone(maximum_features_length) THEN <<>>
                     ELSE <<Val(features_length) < Val(maximum_features_length)>>)
      lcond == IF IsNone(labels_length) THEN <<>>
               ELSE <<Val(labels_length) > 0>> \o
                    (IF IsNone(maximum_labels_length) THEN <<>>
                     ELSE <<Val(labels_length) < Val(maximum_labels_length)>>)
  IN ReduceAll(fcond \o lcond)

\* _filter_example(features, labels, maximum_features_length, maximum_labels_length):
\* the conditions are appended to cond in this order and reduced with reduce_all.
filter_example(features, labels, maximum_features_length, maximum_labels_length) ==
  LET features_length == GetLength(features)
      labels_length == IF IsDict(labels) THEN GetLength(labels) ELSE None
      fcond == IF IsNone(features_length) THEN <<>>
               ELSE <<Val(features_length) > 0>> \o
                    (IF IsNone(maximum_features_length) THEN <<>>
                     ELSE <<Val(features_length) <= Val(maximum_features_length)>>)
      lcond == IF IsNone(labels_length) THEN <<>>
               ELSE <<Val(labels_length) > 0>> \o
                    (IF IsNone(maximum_labels_length) THEN <<>>
                     ELSE <<Val(labels_length) <= Val(maximum_labels_length)>>)
  IN ReduceAll(fcond \o lcond)

\* A dictionary with a length, or without one.
Dict(l) == [kind |-> "dict", length |-> l]

DictNoLength == [kind |-> "dict"]

PyNone == [kind |-> "None"]

Tensor == [kind |-> "Tensor"]

FilterLengths == {0, 1, 4, 5, 10, 11}

FilterMaxima == {None, Some(-1), Some(0), Some(4), Some(10)}

FilterFeatures == {Dict(l) : l \in FilterLengths} \cup {DictNoLength}

FilterLabels == {Dict(l) : l \in FilterLengths} \cup {DictNoLength, PyNone, Tensor}

NoFilterCall == [called |-> FALSE]

\* The arguments of a call of _filter_example that has not run yet.
FilterInit ==
  \E f \in FilterFeatures, l \in FilterLabels, mf \in FilterMaxima, ml \in FilterMaxima :
    fcall = [called |-> FALSE, features |-> f, labels |-> l,
             maximum_features_length |-> mf, maximum_labels_length |-> ml,
             result |-> FALSE]

\* The call of _filter_example on its arguments.
FilterExample ==
  /\ fcall # NoFilterCall
  /\ ~fcall.called
  /\ fcall' = [fcall EXCEPT !.called = TRUE,
                            !.result = filter_example(fcall.features, fcall.labels,
                                                      fcall.maximum_features_length,
                                                      fcall.maximum_labels_length)]
  /\ UNCHANGED <<decayVars, bucketVars, pipeVars>>

----------------------------------------------------------------------------
(* 4.4 Bucketing: key_func of Model._input_fn_impl *)

DefaultBucketWidth == 10

\* bucket_width of key_func (lines 219-222); `if maximum_features_length:` is
\* false for None and for 0.
BucketWidth(maximum_features_length, num_buckets) ==
  IF Truthy(maximum_features_length)
  THEN FloorDiv(Val(maximum_features_length) + num_buckets - 1, num_buckets)
  ELSE DefaultBucketWidth

\* key_func(features, labels) (lines 224-226): None stands for the integer
\* division by zero of a zero bucket width.
key_func(features, maximum_features_length, num_buckets) ==
  LET bucket_width == BucketWidth(maximum_features_length, num_buckets)
  IN IF bucket_width = 0 THEN None
     ELSE Some(Minimum(FloorDiv(features.length, bucket_width), num_buckets))

KeyLengths == {0, 1, 3, 7, 95, 150}

KeyMaxima == {None, Some(-3), Some(-1), Some(0), Some(2), Some(4), Some(100)}

KeyBuckets == {2, 3, 10}

NoKeyCall == [called |-> FALSE]

\* The arguments of a call of key_func that has not run yet: the example's
\* length and the maximum_features_length and num_buckets of its pipeline.
BucketInit ==
  \E l \in KeyLengths, mf \in KeyMaxima, nb \in KeyBuckets :
    kcall = [called |-> FALSE, length |-> l,
             maximum_features_length |-> mf, num_buckets |-> nb,
             bucket_width |-> None, bucket_id |-> None]

\* The call of key_func on its arguments.
KeyFunc ==
  /\ kcall # NoKeyCall
  /\ ~kcall.called
  /\ kcall' = [kcall EXCEPT
                 !.called = TRUE,
                 !.bucket_width = Some(BucketWidth(kcall.maximum_features_length,
                                                   kcall.num_buckets)),
                 !.bucket_id = key_func(Dict(kcall.length),
                                        kcall.maximum_features_length, kcall.num_buckets)]
  /\ UNCHANGED <<decayVars, filterVars, pipeVars>>

----------------------------------------------------------------------------
(* 4.4 Dataset builder: Model.input_fn and Model._input_fn_impl *)

Modes == {"train", "eval", "infer"}

TRAIN == "train"

PREDICT == "infer"

RECURSIVE SeqsUpTo(_, _)
\* The sequences over S of length at most n.
SeqsUpTo(S, n) ==
  IF n = 0 THEN {<<>>}
  ELSE LET shorter == SeqsUpTo(S, n - 1)
       IN shorter \cup {Append(q, x) : q \in {r \in shorter : Len(r) = n - 1}, x \in S}

FeatureLengths == {0, 1, 2, 3}

LabelLengths == {0, 2}

\* A features file: the examples _build_features reads from it, all with a
\* length (a sequence model) or all without.
FeaturesFiles ==
  {[has_length |-> TRUE, examples |-> q] :
     q \in SeqsUpTo({Dict(l) : l \in FeatureLengths}, MaxFileLen)}
  \cup {[has_length |-> FALSE, examples |-> q] : q \in SeqsUpTo({DictNoLength}, MaxFileLen)}

\* A labels file: dictionaries with a length, or bare tensors.
LabelsFiles ==
  {[has_length |-> TRUE, examples |-> q] :
     q \in SeqsUpTo({Dict(l) : l \in LabelLengths}, MaxFileLen)}
  \cup {[has_length |-> FALSE, examples |-> q] : q \in SeqsUpTo({Tensor}, MaxFileLen)}

BatchSizes == {1, 2}

BufferSizes == {1, 2}

NumBuckets == {1, 2}

MaximumFeaturesLengths == {None, Some(-3), Some(0), Some(2)}

MaximumLabelsLengths == {None, Some(0), Some(1)}

\* A faulty variant of InputFnRaises: the labels file is never required.
InputFnNeverRaises(mode, labels_file) == FALSE

\* input_fn's check (line 276).
InputFnRaises(mode, labels_file) == mode # PREDICT /\ IsNone(labels_file)

\* _build_features(features_file, resources): the dataset of the file's examples.
build_features(features_file) == features_file.examples

\* _build_labels(labels_file, resources): the dataset of the file's examples.
build_labels(labels_file) == labels_file.examples

\* Dataset.zip((features_dataset, labels_dataset)): pairs by position, and
\* ends with the shorter of the two datasets.
Zip(features_dataset, labels_dataset) ==
  [i \in 1..Minimum(Len(features_dataset), Len(labels_dataset)) |->
     [features |-> features_dataset[i], labels |-> labels_dataset[i]]]

\* Lines 192-200: the dataset of (features, labels) elements; labels is None
\* when there is no labels file.
PairedDataset(a) ==
  IF IsNone(a.labels_file)
  THEN [i \in 1..Len(build_features(a.features_file)) |->
          [features |-> build_features(a.features_file)[i], labels |-> PyNone]]
  ELSE Zip(build_features(a.features_file), build_labels(Val(a.labels_file)))

RECURSIVE Filter(_, _)
\* dataset.filter(lambda features, labels: self._filter_example(...)) (lines 203-207)
Filter(dataset, a) ==
  IF dataset = <<>> THEN <<>>
  ELSE LET e == Head(dataset)
           rest == Filter(Tail(dataset), a)
       IN IF filter_example(e.features, e.labels,
                            a.maximum_features_length, a.maximum_labels_length)
          THEN <<e>> \o rest ELSE rest

RemoveAt(q, i) == SubSeq(q, 1, i - 1) \o SubSeq(q, i + 1, Len(q))

RECURSIVE Shuffle(_, _, _)
\* dataset.shuffle(buffer_size, seed): every order one pass can produce. The
\* buffer is filled to buffer_size, then each output is drawn from the buffer
\* and replaced by the next input element.
Shuffle(rest, buffer, buffer_size) ==
  IF Len(buffer) < buffer_size /\ rest # <<>>
  THEN Shuffle(Tail(rest), Append(buffer, Head(rest)), buffer_size)
  ELSE IF buffer = <<>> THEN {<<>>}
  ELSE UNION {{<<buffer[i]>> \o q : q \in Shuffle(rest, RemoveAt(buffer, i), buffer_size)} :
                i \in 1..Len(buffer)}

RECURSIVE Repeat(_, _)
\* dataset.repeat(): the first n passes over the shuffled dataset, each pass
\* in an order of its own.
Repeat(passes, n) ==
  IF n = 0 THEN {<<>>}
  ELSE {p \o q : p \in passes, q \in Repeat(passes, n - 1)}

\* Lines 202-209: the streams that can reach the batching stage.
Streams(a) ==
  IF a.mode = TRAIN
  THEN Repeat(Shuffle(Filter(PairedDataset(a), a), <<>>, a.buffer_size), MaxEpochs)
  ELSE {PairedDataset(a)}

\* Whether the stream has no end: a repeated dataset that is not empty.
Endless(a) == a.mode = TRAIN /\ Filter(PairedDataset(a), a) # <<>>

\* The examples of a stream, each tagged with its place in the order in which
\* it reaches the batching stage.
Tagged(q) == [i \in 1..Len(q) |-> [seq |-> i, features |-> q[i].features, labels |-> q[i].labels]]

\* A faulty variant of NoBucketing: the bucketed branch is never taken.
NoBucketingAlways(mode, num_buckets) == TRUE

\* Line 211: the condition of the plain padded_batch branch.
NoBucketing(mode, num_buckets) == mode = PREDICT \/ num_buckets <= 1

RECURSIVE PaddedBatch(_, _)
\* dataset.padded_batch(batch_size): consecutive batches of batch_size
\* elements, the last one possibly smaller.
PaddedBatch(dataset, batch_size) ==
  IF dataset = <<>> THEN <<>>
  ELSE IF Len(dataset) <= batch_size THEN <<dataset>>
  ELSE <<SubSeq(dataset, 1, batch_size)>>
       \o PaddedBatch(SubSeq(dataset, batch_size + 1, Len(dataset)), batch_size)

\* reduce_func(key, dataset) (lines 228-231)
reduce_func(window, batch_size) == PaddedBatch(window, batch_size)

\* A faulty variant of WindowAppend: the newest example goes to the front of its window.
WindowPrepend(window, e) == <<e>> \o window

\* group_by_window collects the elements of a key in arrival order.
WindowAppend(window, e) == Append(window, e)

\* The keys key_func gives to the examples of a stream.
StreamKeys(a, q) ==
  {Val(key_func(q[i].features, a.maximum_features_length, a.num_buckets)) :
     i \in {j \in 1..Len(q) :
              ~IsNone(key_func(q[j].features, a.maximum_features_length, a.num_buckets))}}

Result(status, batch, p, w, pend) ==
  [status |-> status, batch |-> batch, pos |-> p, windows |-> w, pending |-> pend]

RECURSIVE GroupByWindow(_, _, _, _, _, _)
\* One get_next() of dataset.group_by_window(key_func, reduce_func,
\* window_size=batch_size) (lines 233-236): return the next batch of the window
\* being reduced; else read the stream until a window holds window_size
\* elements and reduce it; at the end of the stream reduce the open windows
\* one at a time (flush names the one taken here).
GroupByWindow(a, q, p, w, pend, flush) ==
  IF pend # <<>> THEN Result("batch", Head(pend), p, w, Tail(pend))
  ELSE IF p < Len(q)
  THEN LET e == q[p + 1]
           key == key_func(e.features, a.maximum_features_length, a.num_buckets)
       IN IF IsNone(key) THEN Result("InvalidArgumentError", <<>>, p, w, pend)
          ELSE LET window == WindowAppend(w[Val(key)], e)
               IN IF Len(window) >= a.batch_size
                  THEN GroupByWindow(a, q, p + 1, [w EXCEPT ![Val(key)] = <<>>],
                                     reduce_func(window, a.batch_size), flush)
                  ELSE GroupByWindow(a, q, p + 1, [w EXCEPT ![Val(key)] = window],
                                     <<>>, flush)
  ELSE IF Endless(a) THEN Result("blocked", <<>>, p, w, pend)
  ELSE IF \A k \in DOMAIN w : w[k] = <<>> THEN Result("OutOfRange", <<>>, p, w, pend)
  ELSE IF flush \in DOMAIN w /\ w[flush] # <<>>
  THEN GroupByWindow(a, q, p, [w EXCEPT ![flush] = <<>>],
                     reduce_func(w[flush], a.batch_size), flush)
  ELSE Result("blocked", <<>>, p, w, pend)

\* One get_next() of dataset.padded_batch(batch_size) (lines 212-214).
PlainBatch(a, q, p, w, pend) ==
  IF p + a.batch_size <= Len(q)
  THEN Result("batch", SubSeq(q, p + 1, p + a.batch_size), p + a.batch_size, w, pend)
  ELSE IF Endless(a) THEN Result("blocked", <<>>, p, w, pend)
  ELSE IF p < Len(q) THEN Result("batch", SubSeq(q, p + 1, Len(q)), Len(q), w, pend)
  ELSE Result("OutOfRange", <<>>, p, w, pend)

\* iterator.get_next() (line 243) on the dataset of lines 211-236.
GetNext(a, q, p, w, pend, flush) ==
  IF NoBucketing(a.mode, a.num_buckets)
  THEN PlainBatch(a, q, p, w, pend)
  ELSE GroupByWindow(a, q, p, w, pend, flush)

----------------------------------------------------------------------------
(* 4.2 Word counters: Model._count_words, and 4.5 the model entry point *)

RECURSIVE ReduceSum(_)
\* tf.reduce_sum over a vector of lengths.
ReduceSum(v) == IF v = <<>> THEN 0 ELSE Head(v) + ReduceSum(Tail(v))

\* The features of a batch: the lengths of its examples as one vector.
BatchFeatures(a, batch) ==
  IF a.features_file.has_length
  THEN [kind |-> "dict", length |-> [i \in 1..Len(batch) |-> batch[i].features.length]]
  ELSE DictNoLength

\* The labels of a batch; None when the dataset has no labels.
BatchLabels(a, batch) ==
  IF IsNone(a.labels_file) THEN PyNone
  ELSE IF Val(a.labels_file).has_length
  THEN [kind |-> "dict", length |-> [i \in 1..Len(batch) |-> batch[i].labels.length]]
  ELSE Tensor

\* A faulty variant of assign_add: the counter is overwritten by the batch's count.
assign_overwrite(total_word_count, word_count) == word_count

\* tf.assign_add(total_word_count, word_count) (lines 77-80)
assign_add(total_word_count, word_count) == total_word_count + word_count

NoCounters == [features |-> None, labels |-> None]

\* _count_words at graph construction (lines 72-76, 82-89): a counter
\* variable with initial value 0 for each length that is present.
CreateCounters(features, labels) ==
  LET features_length == GetLength(features)
      labels_length == IF labels # PyNone /\ IsDict(labels) THEN GetLength(labels) ELSE None
  IN [features |-> IF IsNone(features_length) THEN None ELSE Some(0),
      labels |-> IF IsNone(labels_length) THEN None ELSE Some(0)]

\* The counter operations of _count_words run on one batch (lines 77-89).
CountWords(cnt, features, labels) ==
  LET features_length == GetLength(features)
      labels_length == IF labels # PyNone /\ IsDict(labels) THEN GetLength(labels) ELSE None
  IN [features |-> IF IsNone(features_length) THEN cnt.features
                   ELSE Some(assign_add(Val(cnt.features), ReduceSum(Val(features_length)))),
      labels |-> IF IsNone(labels_length) THEN cnt.labels
                 ELSE Some(assign_add(Val(cnt.labels), ReduceSum(Val(labels_length))))]

\* The run fetches the counter operations of the graph once in every step
\* (the training loop and its hooks are not part of model.py).
RunCounterOps(cnt, features, labels) == CountWords(cnt, features, labels)

----------------------------------------------------------------------------
(* The pipeline's actions *)

PipeInit ==
  /\ pc = "idle"
  /\ args = None
  /\ stream = <<>>
  /\ pos = 0
  /\ windows = <<>>
  /\ pending = <<>>
  /\ emitted = <<>>
  /\ counters = NoCounters

\* input_fn(mode, batch_size, buffer_size, num_buckets, resources,
\* features_file, labels_file, maximum_features_length, maximum_labels_length)
\* (lines 276-288): raises ValueError, or returns the input function.
InputFn ==
  /\ pc = "idle"
  /\ \E mode \in Modes, bs \in BatchSizes, buf \in BufferSizes, nb \in NumBuckets,
        ff \in FeaturesFiles, lf \in {None} \cup {Some(l) : l \in LabelsFiles},
        mf \in MaximumFeaturesLengths, ml \in MaximumLabelsLengths :
       /\ args' = Some([mode |-> mode, batch_size |-> bs, buffer_size |-> buf,
                        num_buckets |-> nb, features_file |-> ff, labels_file |-> lf,
                        maximum_features_length |-> mf, maximum_labels_length |-> ml])
       /\ pc' = IF InputFnRaises(mode, lf) THEN "ValueError" ELSE "fn"
  /\ UNCHANGED <<stream, pos, windows, pending, emitted, counters>>
  /\ UNCHANGED <<decayVars, filterVars, bucketVars>>

\* The input function, _input_fn_impl (lines 188-243): builds the datasets
\* and the iterator. key_func reads features["length"] when the bucketed
\* dataset is built, a KeyError for features without a length.
InputFnImpl ==
  /\ pc = "fn"
  /\ LET a == Val(args)
     IN IF (~NoBucketing(a.mode, a.num_buckets)) /\ ~a.features_file.has_length
        THEN /\ pc' = "KeyError"
             /\ UNCHANGED <<stream, windows>>
        ELSE /\ pc' = "dataset"
             /\ \E q \in Streams(a) :
                  /\ stream' = Tagged(q)
                  /\ windows' = IF NoBucketing(a.mode, a.num_buckets) THEN <<>>
                                ELSE [k \in StreamKeys(a, q) |-> <<>>]
  /\ UNCHANGED <<args, pos, pending, emitted, counters>>
  /\ UNCHANGED <<decayVars, filterVars, bucketVars>>

\* __call__(features, labels, params, mode) (lines 64-66): _count_words
\* creates the counters for the structure of the batches.
Call ==
  /\ pc = "dataset"
  /\ pc' = "graph"
  /\ counters' = CreateCounters(BatchFeatures(Val(args), <<>>), BatchLabels(Val(args), <<>>))
  /\ UNCHANGED <<args, stream, pos, windows, pending, emitted>>
  /\ UNCHANGED <<decayVars, filterVars, bucketVars>>

\* One step of the run: the next batch is pulled from the iterator and the
\* counter operations run on it once; the end of the dataset ends the run.
Step ==
  /\ pc = "graph"
  /\ \E flush \in (DOMAIN windows) \cup {0} :
       LET a == Val(args)
           r == GetNext(a, stream, pos, windows, pending, flush)
       IN /\ r.status # "blocked"
          /\ IF r.status = "batch"
             THEN /\ pc' = pc
                  /\ emitted' = Append(emitted, r.batch)
                  /\ counters' = RunCounterOps(counters, BatchFeatures(a, r.batch),
                                               BatchLabels(a, r.batch))
                  /\ pos' = r.pos
                  /\ windows' = r.windows
                  /\ pending' = r.pending
             ELSE /\ pc' = r.status
                  /\ UNCHANGED <<emitted, counters, pos, windows, pending>>
  /\ UNCHANGED <<args, stream>>
  /\ UNCHANGED <<decayVars, filterVars, bucketVars>>

----------------------------------------------------------------------------
(* Specifications *)

Init == DecayInit /\ fcall = NoFilterCall /\ kcall = NoKeyCall /\ PipeInit

Next == InputFn \/ InputFnImpl \/ Call \/ Step

\* The dataset builder and the model entry point.
Spec == Init /\ [][Next]_vars

DecayNext == LearningRateDecayFn \/ DecayFn

\* The decay policy.
DecaySpec == Init /\ [][DecayNext]_vars

FilterSpecInit == DecayInit /\ FilterInit /\ kcall = NoKeyCall /\ PipeInit

\* The example filter.
FilterSpec == FilterSpecInit /\ [][FilterExample]_vars

BucketSpecInit == DecayInit /\ fcall = NoFilterCall /\ BucketInit /\ PipeInit

\* The bucketing key function.
BucketSpec == BucketSpecInit /\ [][KeyFunc]_vars

----------------------------------------------------------------------------
(* Properties of the decay policy, checked under DecaySpec *)

\* C1: for a known decay_type, the rate decay_fn returns for any base rate
\* and global step is at least minimum_learning_rate.
C1_DecayedRateAtLeastMinimum ==
  dpc = "decayed" => Val(dcall.result) >= Val(dcfg).minimum_learning_rate

\* C1's case: the decay function fell below the minimum and the result is the minimum.
C1_ClampedToMinimum ==
  /\ dpc = "decayed"
  /\ Val(dcfg).minimum_learning_rate > dcall.learning_rate
  /\ Val(dcall.result) = Val(dcfg).minimum_learning_rate

\* C2: for a global step below start_decay_steps the returned rate is the
\* rate at effective step 0: the resolved decay function at step 0, with the
\* same base rate and parameters, clamped to the minimum.
C2_NoDecayBeforeStart ==
  (dpc = "decayed" /\ dcall.global_step < Val(dcfg).start_decay_steps) =>
    Val(dcall.result) =
      Maximum(DecayOp(Val(dcfg).decay_type, dcall.learning_rate, 0,
                      Val(dcfg).decay_steps, Val(dcfg).decay_rate, Val(dcfg).staircase),
              Val(dcfg).minimum_learning_rate)

\* C2's case: a call after step 0 and before start_decay_steps, whose decay
\* function would already have decayed the rate had it counted from step 0.
C2_CalledBeforeStart ==
  /\ dpc = "decayed"
  /\ dcall.global_step > 0
  /\ dcall.global_step < Val(dcfg).start_decay_steps
  /\ Val(dcall.result) = dcall.learning_rate
  /\ DecayOp(Val(dcfg).decay_type, dcall.learning_rate, dcall.global_step,
             Val(dcfg).decay_steps, Val(dcfg).decay_rate, Val(dcfg).staircase)
       < dcall.learning_rate

----------------------------------------------------------------------------
(* Properties of the example filter, checked under FilterSpec *)

CarriesLength(v) == v.kind = "dict" /\ "length" \in DOMAIN v

\* The conjunction of the conditions that apply to a call's arguments.
ApplicableConditions(c) ==
  /\ CarriesLength(c.features) => c.features.length > 0
  /\ (CarriesLength(c.features) /\ c.maximum_features_length # None) =>
       c.features.length <= Val(c.maximum_features_length)
  /\ CarriesLength(c.labels) => c.labels.length > 0
  /\ (CarriesLength(c.labels) /\ c.maximum_labels_length # None) =>
       c.labels.length <= Val(c.maximum_labels_length)

\* C3: the filter returns the conjunction of exactly the applicable
\* conditions, true when none applies; filter({length:0}, None) is false,
\* filter({length:5}, None, 4) is false, filter({length:5}, None, 10) is true
\* and filter({}, None) is true.
C3_FilterIsConjunction ==
  fcall.called =>
    /\ fcall.result = ApplicableConditions(fcall)
    /\ (~CarriesLength(fcall.features) /\ ~CarriesLength(fcall.labels)) => fcall.result
    /\ (fcall.features = Dict(0) /\ fcall.labels = PyNone) => ~fcall.result
    /\ (fcall.features = Dict(5) /\ fcall.labels = PyNone
        /\ fcall.maximum_features_length = Some(4)) => ~fcall.result
    /\ (fcall.features = Dict(5) /\ fcall.labels = PyNone
        /\ fcall.maximum_features_length = Some(10)) => fcall.result
    /\ (fcall.features = DictNoLength /\ fcall.labels = PyNone) => fcall.result

\* C3's case: an example at both of its maximum lengths is kept.
C3_KeptAtTheMaxima ==
  /\ fcall.called
  /\ fcall.features = Dict(10) /\ fcall.maximum_features_length = Some(10)
  /\ fcall.labels = Dict(4) /\ fcall.maximum_labels_length = Some(4)
  /\ fcall.result

----------------------------------------------------------------------------
(* Properties of the bucketing key function, checked under BucketSpec *)

\* The ceiling of a / b for b > 0.
CeilDiv(a, b) == -FloorDiv(-a, b)

\* C4: the bucket width is ceil(maximum_features_length / num_buckets) if
\* maximum_features_length is set and 10 otherwise, the bucket id is
\* min(floor(length / bucket_width), num_buckets) and lies in 0..num_buckets;
\* with maximum_features_length = 100 and num_buckets = 10 the width is 10,
\* length 95 has bucket 9 and length 150 has bucket 10.
C4_BucketIdFormula ==
  kcall.called =>
    /\ kcall.bucket_width =
         Some(IF kcall.maximum_features_length # None
              THEN CeilDiv(Val(kcall.maximum_features_length), kcall.num_buckets)
              ELSE 10)
    /\ kcall.bucket_id # None
    /\ Val(kcall.bucket_id) \in 0..kcall.num_buckets
    /\ Val(kcall.bucket_id) =
         Minimum(FloorDiv(kcall.length, Val(kcall.bucket_width)), kcall.num_buckets)
    /\ (kcall.maximum_features_length = Some(100) /\ kcall.num_buckets = 10) =>
         /\ kcall.bucket_width = Some(10)
         /\ kcall.length = 95 => kcall.bucket_id = Some(9)
         /\ kcall.length = 150 => kcall.bucket_id = Some(10)

----------------------------------------------------------------------------
(* Properties of the dataset builder and the word counters, checked under Spec *)

\* Bucketing is active: mode is train or eval and num_buckets > 1.
BucketingActive ==
  pc # "idle" /\ Val(args).mode \in {"train", "eval"} /\ Val(args).num_buckets > 1

\* The bucket id of an example of the stream.
BucketIdOf(e) ==
  IF "length" \in DOMAIN e.features
  THEN key_func(e.features, Val(args).maximum_features_length, Val(args).num_buckets)
  ELSE None

\* C5: with bucketing active, every batch emitted so far holds examples of
\* one bucket id only, and at most batch_size of them.
C5_BatchesAreOneBucket ==
  BucketingActive =>
    \A i \in DOMAIN emitted :
      /\ Len(emitted[i]) <= Val(args).batch_size
      /\ \A p, r \in DOMAIN emitted[i] :
           BucketIdOf(emitted[i][p]) = BucketIdOf(emitted[i][r])

\* C5's case: a full batch of two examples, and batches of two different buckets.
C5_FullBatchAndTwoBuckets ==
  /\ BucketingActive
  /\ \E i \in DOMAIN emitted : Len(emitted[i]) = 2
  /\ \E i, j \in DOMAIN emitted : BucketIdOf(emitted[i][1]) # BucketIdOf(emitted[j][1])

RECURSIVE Words(_, _)
\* The sum over the batches of the lengths of the named modality.
Words(batches, modality) ==
  IF batches = <<>> THEN 0
  ELSE ReduceSum([i \in 1..Len(Head(batches)) |-> Head(batches)[i][modality].length])
       + Words(Tail(batches), modality)

\* C6: no counter exists before the entry point has run; after it, the
\* features counter is the sum of the length-sums of the batches processed so
\* far (0 before the first), likewise the labels counter, and a modality
\* without a length has no counter.
C6_CountersAreSums ==
  /\ pc \in {"idle", "fn", "ValueError", "KeyError", "dataset"} => counters = NoCounters
  /\ pc \in {"graph", "OutOfRange", "InvalidArgumentError"} =>
       /\ counters.features =
            IF Val(args).features_file.has_length
            THEN Some(Words(emitted, "features")) ELSE None
       /\ counters.labels =
            IF Val(args).labels_file # None /\ Val(Val(args).labels_file).has_length
            THEN Some(Words(emitted, "labels")) ELSE None

\* C6's case: two batches processed, each adding words to both counters.
C6_TwoBatchesCounted ==
  /\ pc = "graph"
  /\ Len(emitted) = 2
  /\ counters.features # None /\ counters.labels # None
  /\ Words(<<emitted[1]>>, "features") > 0 /\ Words(<<emitted[2]>>, "features") > 0
  /\ Words(<<emitted[1]>>, "labels") > 0 /\ Words(<<emitted[2]>>, "labels") > 0
  /\ Val(counters.features) = Words(emitted, "features")

\* C7: input_fn in train or eval mode without a labels file fails before any
\* stream is built and before any batch is produced; in predict mode the
\* missing labels file is accepted.
C7_LabelsFileRequired ==
  (pc # "idle" /\ Val(args).labels_file = None) =>
    IF Val(args).mode # PREDICT
    THEN /\ pc = "ValueError"
         /\ stream = <<>> /\ windows = <<>> /\ emitted = <<>>
         /\ counters = NoCounters
    ELSE pc # "ValueError"

\* C7's case: a training input function asked for without a labels file has failed.
C7_TrainingWithoutLabelsFailed ==
  /\ pc = "ValueError"
  /\ Val(args).mode = TRAIN
  /\ Val(args).labels_file = None
  /\ Len(Val(args).features_file.examples) > 0

\* C8: a features stream and a labels stream of different lengths are a fatal
\* error: no batch is ever emitted from their pairing.
C8_UnequalStreamsAreFatal ==
  (/\ pc # "idle"
   /\ Val(args).labels_file # None
   /\ Len(Val(args).features_file.examples) # Len(Val(Val(args).labels_file).examples)) =>
    emitted = <<>>

\* C9: a maximum_features_length or maximum_labels_length that is zero or
\* negative is rejected: the builder never goes on to build, filter, bucket
\* or batch the dataset.
C9_NonPositiveMaximumRejected ==
  (/\ pc # "idle"
   /\ \/ (Val(args).maximum_features_length # None
          /\ Val(Val(args).maximum_features_length) <= 0)
      \/ (Val(args).maximum_labels_length # None
          /\ Val(Val(args).maximum_labels_length) <= 0)) =>
    pc \notin {"dataset", "graph", "OutOfRange", "InvalidArgumentError"}

\* C10: with bucketing active, an example that entered the batching stage
\* before another of the same bucket id is emitted in an earlier batch, or
\* earlier in the same batch.
C10_OrderKeptWithinBucket ==
  BucketingActive =>
    \A i \in DOMAIN emitted : \A p \in DOMAIN emitted[i] :
      \A s \in 1..(emitted[i][p].seq - 1) :
        BucketIdOf(stream[s]) = BucketIdOf(emitted[i][p]) =>
          \E j \in 1..i : \E r \in DOMAIN emitted[j] :
            /\ emitted[j][r].seq = s
            /\ j < i \/ r < p

\* C10's case: a batch shared by two examples of one bucket, emitted before an
\* example of another bucket that arrived between the two.
C10_SharedBatchAndReordered ==
  /\ BucketingActive
  /\ \E i, j \in DOMAIN emitted :
       /\ i < j
       /\ Len(emitted[i]) = 2
       /\ BucketIdOf(emitted[i][1]) # BucketIdOf(emitted[j][1])
       /\ emitted[i][1].seq < emitted[j][1].seq
       /\ emitted[j][1].seq < emitted[i][2].seq

====
